---- MODULE Spec2Model ----
(***************************************************************************)
(* Model of the moisture tracker core of ha-lawn-moisture:                 *)
(*   custom_components/moisture_tracker/coordinator.py                     *)
(*   custom_components/moisture_tracker/calculations.py                    *)
(*   custom_components/moisture_tracker/const.py                           *)
(*                                                                         *)
(* Number representation (Python floats become fixed-point integers):      *)
(*   moisture, drying rate, dew rate : units of 1e-8  (1.0 = ONE)          *)
(*   factor components (0..1)        : units of 1e-4  (1.0 = UNIT)         *)
(*   temperatures of the snapshot    : whole degrees Celsius               *)
(*   dew point, depression           : millidegrees (1 degree = DEG)       *)
(*   humidity                        : whole percent                       *)
(*   time                            : minutes since midnight of day 0     *)
(* Divisions round to the nearest unit (RoundDiv); round(x, 3) rounds to   *)
(* the nearest multiple of 1e-3, ties to even, as Python's round does.     *)
(***************************************************************************)
EXTENDS Integers, FiniteSets, Sequences, TLC

\* ------------------------------------------------------------------ bounds
\* number of update cycles explored
MaxCycles == 4
\* highest starting level, in thousandths, of the drying runs
MaxStartMilli == 25

\* ------------------------------------------------------- fixed-point units
ONE == 100000000
UNIT == 10000
DEG == 1000
MILLI == 100000

\* --------------------------------------------------------------- const.py
HUMIDITY_THRESHOLD == 85
\* DEW_TEMP_DIFFERENCE = 1.0 degree, in millidegrees
DEW_TEMP_DIFFERENCE == 1000
\* DEW_MOIST_CAP = 0.6, in 1e-8 units
DEW_MOIST_CAP == 60000000
DEW_RESET_HOUR == 12
\* WETTING_INCREMENT = 0.1 per degree: 1e-8 units of moisture per millidegree
WETTING_INCREMENT == 10000
\* MASTER_DRYING_COEFFICIENT = 0.02, in percent
MASTER_DRYING_COEFFICIENT == 2
\* WEIGHTS["temperature"] = 0.15 and WEIGHTS["wind"] = 0.10, in percent
WEIGHT_TEMPERATURE == 15
WEIGHT_WIND == 10
MAX_SOLAR_POWER_W == 6000
MIN_DRYING_TEMP_C == 8
MAX_DRYING_TEMP_C == 30
MAX_EFFECTIVE_WIND_KMH == 30

\* update_interval = timedelta(minutes=5)
update_interval == 5
\* trigger_time = sunset - timedelta(minutes=30)
TRIGGER_LEAD_MINUTES == 30
\* now.minute < 5
RESET_WINDOW_MINUTES == 5
\* dew_point_depression: float = 100.0, in millidegrees
DEPRESSION_SENTINEL == 100000

\* self.sunset_temp / self.sunset_humi = None
None == -9999

\* ------------------------------------------------------------- arithmetic
Max(a, b) == IF a >= b THEN a ELSE b
Min(a, b) == IF a <= b THEN a ELSE b

\* a / b rounded to the nearest integer, b > 0
RoundDiv(a, b) == (2 * a + b) \div (2 * b)

Clamp01_NoFloor(x) == Min(UNIT, x)

\* max(0.0, min(1.0, x)) on a factor component
Clamp01(x) == Max(0, Min(UNIT, x))

Round3_Ceiling(x) == ((x + MILLI - 1) \div MILLI) * MILLI

\* round(x, 3): nearest multiple of 0.001, ties to the even multiple (a
\* decimal tie has no exact binary float, so the float result may fall on
\* either side; the input sets below produce no ties)
Round3(x) ==
    LET q == x \div MILLI
        r == x % MILLI
    IN  IF 2 * r < MILLI THEN q * MILLI
        ELSE IF 2 * r > MILLI THEN (q + 1) * MILLI
        ELSE IF q % 2 = 0 THEN q * MILLI ELSE (q + 1) * MILLI

\* Python truthiness of an Optional[float]: None and 0.0 are false
Truthy(x) == x # None /\ x # 0

\* ------------------------------------------------------------- input sets
Temperatures == {0, 8, 10}
Humidities == {-5, 0, 40, 94}
SolarPowers == {3000}
WindSpeeds == {15}
RainStates == {0, 1}
\* minutes from now until the sun entity's next_setting
SunsetLeads == {15, 45}
\* wall-clock time of the first refresh: 11:55
StartTimes == {715}

\* --------------------------------------------------------- calculations.py
\* math.log(rh) for rh = relative_humidity / 100, in 1e-4 units
LogRh(relative_humidity) ==
    CASE relative_humidity = 40 -> -9163
      [] relative_humidity = 85 -> -1625
      [] relative_humidity = 94 -> -619
      [] relative_humidity = 120 -> 1823
      [] relative_humidity = 100 -> 0

\* math.log raises ValueError for rh <= 0; the divisions raise
\* ZeroDivisionError for B + temp_c = 0 and for A - gamma = 0
DewPointRaises(temp_c, relative_humidity) ==
    \/ relative_humidity <= 0
    \/ 2377 + 10 * temp_c = 0
    \/ RoundDiv(1727000 * temp_c, 2377 + 10 * temp_c)
         + LogRh(relative_humidity) = 172700

\* Magnus-Tetens, A = 17.27, B = 237.7; gamma in 1e-4 units, result in
\* millidegrees (the quotient B * gamma / (A - gamma) is taken in two steps
\* to stay within 32-bit integers)
calculate_dew_point(temp_c, relative_humidity) ==
    LET gamma == RoundDiv(1727000 * temp_c, 2377 + 10 * temp_c)
                   + LogRh(relative_humidity)
        denom == 172700 - gamma
        whole == (2377 * gamma) \div denom
        rest == (2377 * gamma) % denom
    IN  100 * whole + RoundDiv(100 * rest, denom)

calculate_grass_drying_Humidity100(solar_power, humidity, temperature, wind_speed) ==
    LET sun_component ==
            Clamp01(RoundDiv(solar_power * UNIT, MAX_SOLAR_POWER_W))
        humidity_component == Clamp01((100 - humidity) * (UNIT \div 100))
        temp_range == MAX_DRYING_TEMP_C - MIN_DRYING_TEMP_C
        temp_component ==
            Clamp01(RoundDiv((temperature - MIN_DRYING_TEMP_C) * UNIT,
                             temp_range))
        wind_component ==
            Clamp01(RoundDiv(wind_speed * UNIT, MAX_EFFECTIVE_WIND_KMH))
        base_drying_potential ==
            RoundDiv(sun_component * humidity_component, UNIT)
        accelerant_boost ==
            UNIT + RoundDiv(temp_component * WEIGHT_TEMPERATURE, 100)
                 + RoundDiv(wind_component * WEIGHT_WIND, 100)
    IN  RoundDiv(base_drying_potential * accelerant_boost
                   * MASTER_DRYING_COEFFICIENT, 100)

\* drying rate in 1e-8 units
calculate_grass_drying(solar_power, humidity, temperature, wind_speed) ==
    LET sun_component ==
            Clamp01(RoundDiv(solar_power * UNIT, MAX_SOLAR_POWER_W))
        humidity_component == Clamp01((90 - humidity) * (UNIT \div 100))
        temp_range == MAX_DRYING_TEMP_C - MIN_DRYING_TEMP_C
        temp_component ==
            Clamp01(RoundDiv((temperature - MIN_DRYING_TEMP_C) * UNIT,
                             temp_range))
        wind_component ==
            Clamp01(RoundDiv(wind_speed * UNIT, MAX_EFFECTIVE_WIND_KMH))
        base_drying_potential ==
            RoundDiv(sun_component * humidity_component, UNIT)
        accelerant_boost ==
            UNIT + RoundDiv(temp_component * WEIGHT_TEMPERATURE, 100)
                 + RoundDiv(wind_component * WEIGHT_WIND, 100)
    IN  RoundDiv(base_drying_potential * accelerant_boost
                   * MASTER_DRYING_COEFFICIENT, 100)

\* ------------------------------------------------------------ coordinator.py
VARIABLES
    moisture_level,            \* self.moisture_level, 1e-8 units
    sunset_temp,               \* self.sunset_temp, None or degrees
    sunset_humi,               \* self.sunset_humi, None or percent
    has_stored_sunset_values,  \* self.has_stored_sunset_values
    now,                       \* wall clock read by dt_util.now()
    cycle,                     \* number of update cycles run so far
    data,                      \* snapshot fetched by the last cycle
    locals,                    \* local variables of the last cycle
    result                     \* what the last cycle returned or raised

vars == <<moisture_level, sunset_temp, sunset_humi, has_stored_sunset_values,
          now, cycle, data, locals, result>>

Hour(t) == (t % 1440) \div 60
Minute(t) == t % 60

\* data dict returned by _fetch_and_prepare_data; fetched = FALSE stands for
\* the UpdateFailed it raises when an entity is missing or unparsable
Snapshots ==
    [fetched : {TRUE}, temperature : Temperatures, humidity : Humidities,
     solar : SolarPowers, wind : WindSpeeds, raining : RainStates,
     is_daytime : BOOLEAN, sunset_lead : SunsetLeads]

NoData ==
    [fetched |-> FALSE, temperature |-> 0, humidity |-> 0, solar |-> 0,
     wind |-> 0, raining |-> 0, is_daytime |-> FALSE, sunset_lead |-> 0]

NoLocals ==
    [now |-> 0, current_moisture |-> 0,
     dew_point_depression |-> DEPRESSION_SENTINEL, dry_rate |-> 0,
     branch |-> "none", stored |-> FALSE, reset |-> FALSE]

NoResult == [status |-> "none", moisture |-> 0, dew_point |-> 0]

track_sunset_conditions_NoFlagCheck(st, sh, flag, sunset, now_, temp, humi) ==
    LET trigger_time == sunset - TRIGGER_LEAD_MINUTES
        capture == now_ >= trigger_time
        reset == Hour(now_) = DEW_RESET_HOUR
                 /\ Minute(now_) < RESET_WINDOW_MINUTES
    IN  [sunset_temp |-> IF reset THEN None
                         ELSE IF capture THEN temp ELSE st,
         sunset_humi |-> IF reset THEN None
                         ELSE IF capture THEN humi ELSE sh,
         has_stored_sunset_values |->
             IF reset THEN FALSE ELSE IF capture THEN TRUE ELSE flag,
         stored |-> capture,
         reset |-> reset]

\* state after the two ifs of _track_sunset_conditions; stored and reset
\* tell which of them ran
track_sunset_conditions(st, sh, flag, sunset, now_, temp, humi) ==
    LET trigger_time == sunset - TRIGGER_LEAD_MINUTES
        capture == (now_ >= trigger_time) /\ ~flag
        reset == Hour(now_) = DEW_RESET_HOUR
                 /\ Minute(now_) < RESET_WINDOW_MINUTES
    IN  [sunset_temp |-> IF reset THEN None
                         ELSE IF capture THEN temp ELSE st,
         sunset_humi |-> IF reset THEN None
                         ELSE IF capture THEN humi ELSE sh,
         has_stored_sunset_values |->
             IF reset THEN FALSE ELSE IF capture THEN TRUE ELSE flag,
         stored |-> capture,
         reset |-> reset]

\* if self.sunset_humi and self.sunset_temp
HasSunsetValues(st, sh) == Truthy(sh) /\ Truthy(st)

\* dew_point_depression of the cycle, centidegrees
DewPointDepression(st, sh, temp) ==
    IF HasSunsetValues(st, sh)
    THEN calculate_dew_point(st, sh) + DEW_TEMP_DIFFERENCE - temp * DEG
    ELSE DEPRESSION_SENTINEL

\* an exception is raised between the sunset tracking and the model logic
ComputationRaises(st, sh, temp, humidity) ==
    \/ DewPointRaises(temp, humidity)
    \/ HasSunsetValues(st, sh) /\ DewPointRaises(st, sh)

\* line 98-100: the guard of the dew wetting branch
WettingApplies_NoCapGuard(is_daytime, current_moisture, dew_point_depression) ==
    ~is_daytime /\ dew_point_depression > 0

WettingApplies(is_daytime, current_moisture, dew_point_depression) ==
    /\ ~is_daytime
    /\ current_moisture < DEW_MOIST_CAP
    /\ dew_point_depression > 0

\* lines 101-103: the dew wetting branch
DewWetting_NoCap(current_moisture, dew_point_depression) ==
    Max(current_moisture, dew_point_depression * WETTING_INCREMENT)

DewWetting_Cumulative(current_moisture, dew_point_depression) ==
    Min(current_moisture + dew_point_depression * WETTING_INCREMENT,
        DEW_MOIST_CAP)

DewWetting(current_moisture, dew_point_depression) ==
    LET dew_rate == dew_point_depression * WETTING_INCREMENT
        moisture_increase == Max(current_moisture, dew_rate)
    IN  Min(moisture_increase, DEW_MOIST_CAP)

\* line 107: the daytime drying branch
Drying_NoFloor(current_moisture, dry_rate) == current_moisture - dry_rate

Drying_SignFlipped(current_moisture, dry_rate) ==
    Max(0, current_moisture + dry_rate)

Drying(current_moisture, dry_rate) == Max(0, current_moisture - dry_rate)

\* step 3 of _async_update_data: the if / elif / elif chain
ModelLogic_WettingFirst(current_moisture, raining, is_daytime, humidity, dew_point_depression, dry_rate) ==
    IF WettingApplies(is_daytime, current_moisture, dew_point_depression)
    THEN [branch |-> "dew",
          current_moisture |->
              DewWetting(current_moisture, dew_point_depression)]
    ELSE IF raining = 1
    THEN [branch |-> "rain", current_moisture |-> ONE]
    ELSE IF is_daytime /\ humidity < HUMIDITY_THRESHOLD
    THEN [branch |-> "dry",
          current_moisture |-> Drying(current_moisture, dry_rate)]
    ELSE [branch |-> "hold", current_moisture |-> current_moisture]

ModelLogic_NoHumidityThreshold(current_moisture, raining, is_daytime, humidity, dew_point_depression, dry_rate) ==
    IF raining = 1
    THEN [branch |-> "rain", current_moisture |-> ONE]
    ELSE IF WettingApplies(is_daytime, current_moisture, dew_point_depression)
    THEN [branch |-> "dew",
          current_moisture |->
              DewWetting(current_moisture, dew_point_depression)]
    ELSE IF is_daytime
    THEN [branch |-> "dry",
          current_moisture |-> Drying(current_moisture, dry_rate)]
    ELSE [branch |-> "hold", current_moisture |-> current_moisture]

ModelLogic(current_moisture, raining, is_daytime, humidity, dew_point_depression, dry_rate) ==
    IF raining = 1
    THEN [branch |-> "rain", current_moisture |-> ONE]
    ELSE IF WettingApplies(is_daytime, current_moisture, dew_point_depression)
    THEN [branch |-> "dew",
          current_moisture |->
              DewWetting(current_moisture, dew_point_depression)]
    ELSE IF is_daytime /\ humidity < HUMIDITY_THRESHOLD
    THEN [branch |-> "dry",
          current_moisture |-> Drying(current_moisture, dry_rate)]
    ELSE [branch |-> "hold", current_moisture |-> current_moisture]

\* step 4: self.moisture_level = round(current_moisture, 3) is the last
\* statement of the try block, reached only if nothing raised before it
SavedMoisture_ResetOnError(old_level, raised, current_moisture) ==
    IF raised THEN 0 ELSE Round3(current_moisture)

SavedMoisture(old_level, raised, current_moisture) ==
    IF raised THEN old_level ELSE Round3(current_moisture)

Init ==
    /\ moisture_level = 0
    /\ sunset_temp = None
    /\ sunset_humi = None
    /\ has_stored_sunset_values = FALSE
    /\ now \in StartTimes
    /\ cycle = 0
    /\ data = NoData
    /\ locals = NoLocals
    /\ result = NoResult

\* _fetch_and_prepare_data raises UpdateFailed: nothing else runs
FetchFails ==
    /\ data' = NoData
    /\ locals' = [NoLocals EXCEPT !.now = now,
                                  !.current_moisture = moisture_level]
    /\ result' = [NoResult EXCEPT !.status = "UpdateFailed"]
    /\ UNCHANGED <<moisture_level, sunset_temp, sunset_humi,
                   has_stored_sunset_values>>

\* the body of the try block from the fetched data dict d on
Compute(d) ==
    LET tr == track_sunset_conditions(sunset_temp, sunset_humi,
                  has_stored_sunset_values, now + d.sunset_lead, now,
                  d.temperature, d.humidity)
        raised == ComputationRaises(tr.sunset_temp, tr.sunset_humi,
                                    d.temperature, d.humidity)
        depression == IF raised THEN DEPRESSION_SENTINEL
                      ELSE DewPointDepression(tr.sunset_temp, tr.sunset_humi,
                                              d.temperature)
        dry_rate == IF raised THEN 0
                    ELSE calculate_grass_drying(d.solar, d.humidity,
                                                d.temperature, d.wind)
        logic == IF raised
                 THEN [branch |-> "none", current_moisture |-> moisture_level]
                 ELSE ModelLogic(moisture_level, d.raining, d.is_daytime,
                                 d.humidity, depression, dry_rate)
        saved == SavedMoisture(moisture_level, raised, logic.current_moisture)
    IN  /\ data' = d
        /\ sunset_temp' = tr.sunset_temp
        /\ sunset_humi' = tr.sunset_humi
        /\ has_stored_sunset_values' = tr.has_stored_sunset_values
        /\ moisture_level' = saved
        /\ locals' = [now |-> now, current_moisture |-> moisture_level,
                      dew_point_depression |-> depression,
                      dry_rate |-> dry_rate, branch |-> logic.branch,
                      stored |-> tr.stored, reset |-> tr.reset]
        /\ result' =
             IF raised
             THEN [NoResult EXCEPT !.status = "UpdateFailed"]
             ELSE [status |-> "ok", moisture |-> saved,
                   dew_point |-> calculate_dew_point(d.temperature,
                                                     d.humidity)]

\* one polling cycle; the host runs the next one update_interval later
async_update_data ==
    /\ cycle < MaxCycles
    /\ cycle' = cycle + 1
    /\ now' = now + update_interval
    /\ \/ FetchFails
       \/ \E d \in Snapshots : Compute(d)

Next == async_update_data

Spec == Init /\ [][Next]_vars

\* ---------------------------------------------- snapshots outside the domain
\* _get_float_state accepts every float: readings (humidity, solar, wind)
\* with at most one field outside its documented range, and humidity 85
\* under full sun
WideReadings ==
    {<<40, 3000, 15>>, <<85, 6000, 15>>, <<-5, 3000, 15>>,
     <<120, 3000, 15>>, <<40, -100, 15>>, <<40, 3000, -5>>}

WideSnapshots ==
    {[fetched |-> TRUE, temperature |-> 10, humidity |-> r[1],
      solar |-> r[2], wind |-> r[3], raining |-> rn, is_daytime |-> dy,
      sunset_lead |-> ld] :
        r \in WideReadings, rn \in RainStates, dy \in BOOLEAN,
        ld \in SunsetLeads}

\* one polling cycle over the wider readings
wide_update_data ==
    /\ cycle < MaxCycles
    /\ cycle' = cycle + 1
    /\ now' = now + update_interval
    /\ \/ FetchFails
       \/ \E d \in WideSnapshots : Compute(d)

NextWide == wide_update_data

SpecWide == Init /\ [][NextWide]_vars

\* ------------------------------------- calculate_grass_drying on its own
DryingSolarPowers == {-100, 0, 3000, 6000, 7000}
DryingHumidities == {-10, 0, 40, 89, 90, 120}
DryingTemperatures == {0, 8, 20, 30, 35}
DryingWindSpeeds == {-5, 0, 15, 30, 40}

DryingSnapshots ==
    [fetched : {TRUE}, temperature : DryingTemperatures,
     humidity : DryingHumidities, solar : DryingSolarPowers,
     wind : DryingWindSpeeds, raining : {0}, is_daytime : {TRUE},
     sunset_lead : {45}]

\* the arguments of the call are drawn when the data dict is built
InitDrying ==
    /\ moisture_level = 0
    /\ sunset_temp = None
    /\ sunset_humi = None
    /\ has_stored_sunset_values = FALSE
    /\ now \in StartTimes
    /\ cycle = 0
    /\ data \in DryingSnapshots
    /\ locals = NoLocals
    /\ result = NoResult

\* dry_rate = calculate_grass_drying(solar, humidity, temp, wind_speed)
grass_drying_call ==
    /\ locals.branch = "none"
    /\ locals' = [NoLocals EXCEPT
                    !.dry_rate = calculate_grass_drying(data.solar,
                                     data.humidity, data.temperature,
                                     data.wind),
                    !.branch = "dry_rate"]
    /\ UNCHANGED <<moisture_level, sunset_temp, sunset_humi,
                   has_stored_sunset_values, now, cycle, data, result>>

NextDrying == grass_drying_call

SpecDrying == InitDrying /\ [][NextDrying]_vars

\* ------------------------------ repeated cycles under one drying snapshot
\* daytime, not raining, humidity < 85, drying rates 0.00018, 0.00053 and
\* 0.0053
DrainSnapshots ==
    [fetched : {TRUE}, temperature : {10}, humidity : {40},
     solar : {100, 300, 3000}, wind : {15}, raining : {0},
     is_daytime : {TRUE}, sunset_lead : {45}]

DrainStartLevels ==
    {k * MILLI : k \in 0..MaxStartMilli} \cup {DEW_MOIST_CAP, ONE}

InitDrain ==
    /\ moisture_level \in DrainStartLevels
    /\ sunset_temp = None
    /\ sunset_humi = None
    /\ has_stored_sunset_values = FALSE
    /\ now \in StartTimes
    /\ cycle = 0
    /\ data \in DrainSnapshots
    /\ locals = NoLocals
    /\ result = NoResult

\* the host polls again with the same snapshot every update_interval; the
\* clock is kept as a time of day, which is all the cycle reads of it
drain_cycle ==
    /\ now' = (now + update_interval) % 1440
    /\ UNCHANGED cycle
    /\ Compute(data)

NextDrain == drain_cycle

SpecDrain == InitDrain /\ [][NextDrain]_vars /\ WF_vars(drain_cycle)

\* ================================================================== claims
\* the calendar day of a wall-clock time
Day(t) == t \div 1440

\* C1: in every reachable state the persisted moisture_level lies in
\* [0.0, 1.0].
C1_MoistureInRange == moisture_level >= 0 /\ moisture_level <= ONE

\* a drying cycle has lowered a level that rain or dew had raised, and the
\* level is strictly inside the range
C1_Witness ==
    /\ result.status = "ok"
    /\ locals.branch = "dry"
    /\ moisture_level > 0
    /\ moisture_level < locals.current_moisture

C3_FailureKeepsMoisture ==
    [][result'.status = "UpdateFailed"
         => moisture_level' = moisture_level]_vars

\* a cycle failed in the dew point computation (humidity <= 0) while the
\* persisted level was not the initial one
C3_Witness ==
    /\ result.status = "UpdateFailed"
    /\ data.fetched
    /\ data.humidity <= 0
    /\ moisture_level > 0
    /\ moisture_level = locals.current_moisture

\* C4: a cycle that fails leaves moisture_level and the sunset condition
\* (captured temperature, captured humidity, captured-today flag) unchanged.
C4_FailureKeepsAllState ==
    [][result'.status = "UpdateFailed"
         => UNCHANGED <<moisture_level, sunset_temp, sunset_humi,
                        has_stored_sunset_values>>]_vars

\* C5: the cycle after a failed cycle, when given a valid snapshot (humidity
\* in (0, 100]), completes successfully.
C5_ErrorsAreLocal ==
    [][(result.status = "UpdateFailed" /\ data'.fetched
        /\ data'.humidity > 0 /\ data'.humidity <= 100)
         => result'.status = "ok"]_vars

\* C6: a non-raining night-time cycle that runs while no sunset values are
\* captured (before and after its own sunset tracking) leaves moisture_level
\* unchanged.
C6_NoCaptureNoDew ==
    [][(result'.status = "ok"
        /\ sunset_temp = None /\ sunset_humi = None
        /\ sunset_temp' = None /\ sunset_humi' = None
        /\ data'.raining # 1 /\ ~data'.is_daytime)
         => moisture_level' = moisture_level]_vars

\* C7: sunset capture fires once per day: two consecutive cycles do not both
\* store on the same calendar day; a call that finds the flag set outside the
\* reset window keeps the stored values; a call in the reset window ends with
\* values and flag cleared; a trigger-window call that finds the flag clear
\* ends with its temperature and humidity captured.
C7_CaptureOncePerDay ==
    [][data'.fetched =>
         /\ (locals.stored /\ locals'.stored)
              => Day(locals'.now) # Day(locals.now)
         /\ (has_stored_sunset_values /\ ~locals'.reset)
              => UNCHANGED <<sunset_temp, sunset_humi,
                             has_stored_sunset_values>>
         /\ locals'.reset
              => (sunset_temp' = None /\ sunset_humi' = None
                  /\ ~has_stored_sunset_values')
         /\ (~has_stored_sunset_values
             /\ data'.sunset_lead <= TRIGGER_LEAD_MINUTES)
              => (has_stored_sunset_values'
                  /\ sunset_temp' = data'.temperature
                  /\ sunset_humi' = data'.humidity)]_vars

\* C8: when the night dew wetting transition is the one applied, the new
\* moisture_level is at most DEW_MOIST_CAP and at least the prior level.
C8_DewCapAndFloor ==
    [][(result'.status = "ok" /\ data'.raining # 1 /\ ~data'.is_daytime
        /\ moisture_level < DEW_MOIST_CAP
        /\ locals'.dew_point_depression > 0)
         => (moisture_level' <= DEW_MOIST_CAP
             /\ moisture_level' >= moisture_level)]_vars

\* the dew branch ran on a depression computed from captured sunset values
\* whose dew rate exceeds the cap, and the level stopped at the cap
C8_Witness ==
    /\ result.status = "ok"
    /\ locals.branch = "dew"
    /\ HasSunsetValues(sunset_temp, sunset_humi)
    /\ locals.dew_point_depression * WETTING_INCREMENT > DEW_MOIST_CAP
    /\ locals.current_moisture < DEW_MOIST_CAP
    /\ moisture_level = DEW_MOIST_CAP

\* C9: a daytime, non-raining cycle with humidity < 85 never increases
\* moisture_level, and leaves a level of 0.0 at 0.0.
C9_DryingMonotone ==
    [][(result'.status = "ok" /\ data'.is_daytime /\ data'.raining # 1
        /\ data'.humidity < HUMIDITY_THRESHOLD)
         => (moisture_level' <= moisture_level
             /\ (moisture_level = 0 => moisture_level' = 0))]_vars

\* a drying cycle with a positive rate brought a positive level to 0.0
C9_Witness ==
    /\ result.status = "ok"
    /\ locals.branch = "dry"
    /\ locals.dry_rate > 0
    /\ locals.current_moisture > 0
    /\ moisture_level = 0

\* C10: a non-raining night-time cycle whose prior level is at or above
\* DEW_MOIST_CAP, or whose depression is <= 0, leaves moisture_level
\* unchanged.
C10_IdempotentHold ==
    [][(result'.status = "ok" /\ data'.raining # 1 /\ ~data'.is_daytime
        /\ (moisture_level >= DEW_MOIST_CAP
            \/ locals'.dew_point_depression <= 0))
         => moisture_level' = moisture_level]_vars

\* a night-time hold over a level above the cap while the depression was
\* positive
C10_Witness ==
    /\ result.status = "ok"
    /\ locals.branch = "hold"
    /\ data.raining # 1
    /\ ~data.is_daytime
    /\ locals.dew_point_depression > 0
    /\ locals.current_moisture > DEW_MOIST_CAP
    /\ moisture_level = locals.current_moisture

\* a snapshot field outside its documented domain
OutOfDomain(d) ==
    d.humidity <= 0 \/ d.humidity > 100 \/ d.solar < 0 \/ d.wind < 0

\* C11: a cycle whose snapshot has a field out of domain (humidity <= 0,
\* humidity > 100, negative solar power, negative wind speed) fails and
\* leaves moisture_level unchanged.
C11_OutOfDomainRejected ==
    [][(data'.fetched /\ OutOfDomain(data'))
         => (result'.status = "UpdateFailed"
             /\ moisture_level' = moisture_level)]_vars

\* C14: a successful cycle applies exactly the transition chosen by
\* priority (rain, else night dew wetting, else daytime drying below the
\* humidity threshold, else hold) and persists its result rounded to 3
\* decimals; daytime with humidity >= 85 holds.
C14_PriorityTransitions ==
    [][result'.status = "ok" =>
         LET m == moisture_level
             dep == locals'.dew_point_depression
             rain == data'.raining = 1
             dew == ~data'.is_daytime /\ m < DEW_MOIST_CAP /\ dep > 0
             dry == data'.is_daytime /\ data'.humidity < HUMIDITY_THRESHOLD
         IN  /\ rain => moisture_level' = ONE
             /\ (~rain /\ dew)
                  => moisture_level'
                       = Round3(Min(Max(m, dep * WETTING_INCREMENT),
                                    DEW_MOIST_CAP))
             /\ (~rain /\ ~dew /\ dry)
                  => moisture_level'
                       = Round3(Max(0, m - locals'.dry_rate))
             /\ (~rain /\ ~dew /\ ~dry)
                  => (moisture_level' = m /\ moisture_level' = Round3(m))
             /\ result'.moisture = moisture_level']_vars

\* a daytime, non-raining cycle with humidity >= 85 and a drying rate above
\* half the rounding step held a positive level
C14_Witness ==
    /\ result.status = "ok"
    /\ data.is_daytime
    /\ data.raining # 1
    /\ data.humidity >= HUMIDITY_THRESHOLD
    /\ locals.dry_rate > MILLI \div 2
    /\ locals.branch = "hold"
    /\ locals.current_moisture > 0
    /\ moisture_level = locals.current_moisture

\* the wall-clock time is inside the daily reset window
InResetWindow(t) ==
    Hour(t) = DEW_RESET_HOUR /\ Minute(t) < RESET_WINDOW_MINUTES

\* C12: the daily reset is not missed: the cycle the host starts inside the
\* 12:00-12:05 window, a cycle that fails while fetching included, ends with
\* the captured-today flag cleared.
C12_ResetNotMissed ==
    [][(cycle' = cycle + 1 /\ InResetWindow(now))
         => ~has_stored_sunset_values']_vars

\* C15: in a successful cycle that holds captured values (flag set, values
\* present), a captured temperature of 0.0 included, the depression is
\* dew_point(captured) + DEW_TEMP_DIFFERENCE - temperature; the sentinel is
\* used only when nothing is captured.
C15_DepressionFromCapture ==
    [][result'.status = "ok" =>
         /\ (has_stored_sunset_values' /\ sunset_temp' # None
             /\ sunset_humi' # None /\ sunset_humi' > 0)
              => locals'.dew_point_depression
                   = calculate_dew_point(sunset_temp', sunset_humi')
                     + DEW_TEMP_DIFFERENCE - data'.temperature * DEG
         /\ locals'.dew_point_depression = DEPRESSION_SENTINEL
              => ~has_stored_sunset_values']_vars

\* C16: a call that finds the flag clear inside the trigger window ends with
\* the flag set and its temperature and humidity stored, at every wall-clock
\* time.
C16_UnsetToCaptured ==
    [][(data'.fetched /\ ~has_stored_sunset_values
        /\ data'.sunset_lead <= TRIGGER_LEAD_MINUTES)
         => (has_stored_sunset_values'
             /\ sunset_temp' = data'.temperature
             /\ sunset_humi' = data'.humidity)]_vars

\* C17: a call outside the reset window that comes before the trigger window
\* or finds the flag set leaves captured temperature, captured humidity and
\* flag unchanged; they change only in a call that captures or resets.
C17_SunsetFrame ==
    [][/\ (data'.fetched /\ ~InResetWindow(now)
           /\ (data'.sunset_lead > TRIGGER_LEAD_MINUTES
               \/ has_stored_sunset_values))
            => UNCHANGED <<sunset_temp, sunset_humi,
                           has_stored_sunset_values>>
       /\ (<<sunset_temp, sunset_humi, has_stored_sunset_values>>'
             # <<sunset_temp, sunset_humi, has_stored_sunset_values>>)
            => (data'.fetched
                /\ \/ InResetWindow(now)
                   \/ (~has_stored_sunset_values
                       /\ data'.sunset_lead <= TRIGGER_LEAD_MINUTES))]_vars

\* a call inside the trigger window, outside the reset window, found the
\* flag set and kept stored values that differ from its own readings
C17_Witness ==
    /\ data.fetched
    /\ data.sunset_lead <= TRIGGER_LEAD_MINUTES
    /\ ~InResetWindow(locals.now)
    /\ ~locals.stored
    /\ has_stored_sunset_values
    /\ sunset_temp # data.temperature
    /\ sunset_humi # data.humidity

\* C13 as stated: drying_rate(3000, 40, 20, 15) is 0.0106, to within
\* 0.0005.
C13_RateIs0106 ==
    (locals.branch = "dry_rate" /\ data.solar = 3000 /\ data.humidity = 40
     /\ data.temperature = 20 /\ data.wind = 15)
        => (locals.dry_rate >= 1060000 - 50000
            /\ locals.dry_rate <= 1060000 + 50000)

\* C13 amended: drying_rate(3000, 40, 20, 15) is 0.005659, to within
\* 0.00001.
C13_RateIs00566 ==
    (locals.branch = "dry_rate" /\ data.solar = 3000 /\ data.humidity = 40
     /\ data.temperature = 20 /\ data.wind = 15)
        => (locals.dry_rate >= 565909 - 1000
            /\ locals.dry_rate <= 565909 + 1000)

\* the function has been applied to (3000, 40, 20, 15)
C13_Witness ==
    /\ locals.branch = "dry_rate"
    /\ data.solar = 3000
    /\ data.humidity = 40
    /\ data.temperature = 20
    /\ data.wind = 15
    /\ locals.dry_rate > 0

\* C18 as stated: the rate is >= 0 for every input, 0 when humidity >= 90 or
\* solar power <= 0, and never above 0.9 * 1.25 * 0.02 = 0.0225.
C18_RateBounds ==
    locals.branch = "dry_rate"
        => (/\ locals.dry_rate >= 0
            /\ (data.humidity >= 90 \/ data.solar <= 0)
                 => locals.dry_rate = 0
            /\ locals.dry_rate <= 2250000)

\* C18 amended: the rate is >= 0 for every input, 0 when humidity >= 90 or
\* solar power <= 0, at most 0.0225 when humidity >= 0, and at most
\* 1.25 * 0.02 = 0.025 for every input.
C18_RateBoundsValidHumidity ==
    locals.branch = "dry_rate"
        => (/\ locals.dry_rate >= 0
            /\ (data.humidity >= 90 \/ data.solar <= 0)
                 => locals.dry_rate = 0
            /\ data.humidity >= 0 => locals.dry_rate <= 2250000
            /\ locals.dry_rate <= 2500000)

\* the maximum over humidity >= 0 is attained at full sun, humidity 0,
\* 30 degrees and 30 km/h
C18_Witness ==
    /\ locals.branch = "dry_rate"
    /\ data.solar = 6000
    /\ data.humidity = 0
    /\ data.temperature = 30
    /\ data.wind = 30
    /\ locals.dry_rate = 2250000

\* C19 as stated: a drying cycle with a strictly positive rate never leaves
\* a positive level where it was (rounding does not make the level stall).
C19_NeverStalls ==
    [][(result'.status = "ok" /\ locals'.branch = "dry"
        /\ locals'.dry_rate > 0 /\ moisture_level > 0)
         => moisture_level' < moisture_level]_vars

\* C19 amended: under a fixed daytime, non-raining snapshot with humidity
\* < 85 and a drying rate above 0.0005 (half the rounding step), repeated
\* cycles eventually bring moisture_level to 0.0 from any starting value.
C19_EventuallyDry ==
    (locals.branch = "dry" /\ locals.dry_rate > MILLI \div 2)
        ~> (moisture_level = 0)

\* a rate between half a rounding step and a whole one brought a positive
\* level to 0.0
C19_Witness ==
    /\ result.status = "ok"
    /\ locals.branch = "dry"
    /\ locals.dry_rate > MILLI \div 2
    /\ locals.dry_rate < MILLI
    /\ locals.current_moisture > 0
    /\ moisture_level = 0

\* C20: of two consecutive successful non-raining night-time cycles with the
\* same temperature, humidity and depression, the second leaves the level
\* where the first put it, and a first cycle that took the dew branch put it
\* at round3(min(max(level, depression * WETTING_INCREMENT), DEW_MOIST_CAP)).
C20_DewNotCumulative ==
    [][(result.status = "ok" /\ result'.status = "ok"
        /\ data.raining # 1 /\ data'.raining # 1
        /\ ~data.is_daytime /\ ~data'.is_daytime
        /\ data'.temperature = data.temperature
        /\ data'.humidity = data.humidity
        /\ locals'.dew_point_depression = locals.dew_point_depression)
         => (/\ moisture_level' = moisture_level
             /\ locals.branch = "dew"
                  => moisture_level
                       = Round3(Min(Max(locals.current_moisture,
                                        locals.dew_point_depression
                                          * WETTING_INCREMENT),
                                    DEW_MOIST_CAP)))]_vars

\* a second dew cycle on captured sunset values kept a level below the cap
\* although the dew rate, which round3 had rounded down, is above the level
C20_Witness ==
    /\ result.status = "ok"
    /\ locals.branch = "dew"
    /\ HasSunsetValues(sunset_temp, sunset_humi)
    /\ ~locals.stored
    /\ locals.dew_point_depression * WETTING_INCREMENT > moisture_level
    /\ moisture_level < DEW_MOIST_CAP
    /\ moisture_level > 0
    /\ moisture_level = locals.current_moisture

====
